---------------------------- MODULE Spec2Model ----------------------------
(***************************************************************************)
(* A model of vimeo_downloader.py.                                         *)
(*                                                                         *)
(* SpecAuth     : authenticate() (the foreground thread), the callback     *)
(*                server's serve_forever thread with                       *)
(*                OAuthCallbackHandler.do_GET, and the browser that sends  *)
(*                requests to the callback port.                           *)
(* SpecDiscover : get_best_download_link() on one video resource, with     *)
(*                find_best_resolution and the API client's responses.     *)
(* SpecSelect   : find_best_resolution() on the lists of a bounded set.    *)
(* SpecList     : list_videos(limit) on an account of pages.               *)
(* SpecDownload : download_video(), with list_videos() and                 *)
(*                get_best_download_link() as it calls them, run more than *)
(*                once over the same download directory.                   *)
(***************************************************************************)
EXTENDS Integers, Sequences, FiniteSets, TLC

(***************************************************************************)
(* Values                                                                  *)
(***************************************************************************)
\* Python's None, for slots that otherwise hold strings.
None == "None"

\* A string is modelled as a sequence of tokens; str.startswith is the
\* prefix relation on token sequences.
StartsWith(s, prefix) ==
    /\ Len(s) >= Len(prefix)
    /\ SubSeq(s, 1, Len(prefix)) = prefix

\* CALLBACK_PATH = "/callback"
CALLBACK_PATH == << "/callback" >>

\* timeout = 300  (seconds)
timeout == 300

(***************************************************************************)
(* Bounds of the model                                                     *)
(***************************************************************************)
\* Requests the browser (or anything else on the machine) sends to the
\* callback port during one authentication attempt.
MaxRequests == 2

(***************************************************************************)
(* Requests: the request line's path (before the "?") and the raw query.   *)
(* A raw query is a function from parameter names to values; a blank value *)
(* is written "".                                                          *)
(***************************************************************************)
NoQuery == [k \in {} |-> ""]
Q(k, v) == [x \in {k} |-> v]
Q2(k1, v1, k2, v2) == [x \in {k1, k2} |-> IF x = k1 THEN v1 ELSE v2]

Requests ==
    { [path |-> << "/callback" >>,      query |-> Q("code", "ABC")],
      [path |-> << "/callback" >>,      query |-> Q("code", "")],
      [path |-> << "/callback" >>,      query |-> Q("error", "denied")],
      [path |-> << "/callback" >>,      query |-> Q2("code", "ABC", "error", "denied")],
      [path |-> << "/callback" >>,      query |-> NoQuery],
      [path |-> << "/callback", "X" >>, query |-> Q("code", "ABC")],
      [path |-> << "/favicon.ico" >>,   query |-> NoQuery] }

\* urllib.parse.parse_qs with its default keep_blank_values=False: a
\* parameter with a blank value is dropped.
parse_qs(query) ==
    [k \in {x \in DOMAIN query : query[x] # ""} |-> query[k]]

\* The outcomes of v.exchange_code: it raises, or returns a tuple.
ExchangeOutcomes ==
    { << "raise" >>,
      << "ok", << "tok1", None, "private video_files" >> >>,
      << "ok", << "tok1", None >> >>,
      << "ok", << "", None, "private video_files" >> >>,
      << "ok", << >> >> }

NoFile == [access_token |-> None, scope |-> None, created_at |-> None]
OldToken == [access_token |-> "tok0", scope |-> "private", created_at |-> "earlier"]

VARIABLES
    \* ---- authenticate(): the foreground thread
    pc,                 \* position of the foreground thread in authenticate
    client_id,          \* module global client_id
    client_secret,      \* module global client_secret
    browser_open,       \* webbrowser.open(auth_url) has been called
    elapsed,            \* time.time() - start_time, in seconds
    token_response,     \* what v.exchange_code returned
    access_token,       \* module global access_token
    TOKEN_FILE,         \* content of vimeo_token.json
    exit_code,          \* -1 while running, 0 on return, 1 on sys.exit(1)
    echo,               \* the last status line printed by click.echo
    exchange_calls,     \* number of calls of v.exchange_code
    \* ---- OAuthCallbackHandler class attributes
    callback_received,
    auth_code,
    \* ---- httpd: the TCPServer and its serve_forever thread
    socket_open,        \* httpd.socket is bound and listening
    srv,                \* "none", "bound", "serving", "stopped"
    shutdown_request,   \* BaseServer.__shutdown_request
    hpc,                \* position of the handler: "idle" or "signal"
    cur,                \* the request do_GET is handling
    wfile,              \* the last response page written
    served,             \* requests served, in order (the server's log)
    \* ---- the network
    backlog,            \* connections queued on the callback port
    sent,               \* number of requests sent so far
    refused,            \* requests that found nothing listening
    \* ---- get_best_download_link(video, client, debug, prefer_hd)
    pc_d,               \* position in get_best_download_link
    video,              \* the video resource (a JSON tree; sorted in place)
    prefer_hd,          \* the quality policy
    requests,           \* the calls of client.get, in order
    responses,          \* what each call returned (or that it raised)
    result,             \* the value get_best_download_link returns
    \* ---- find_best_resolution(links, prefer_hd), called on its own
    pc_s,               \* "call" before the call, "returned" after it
    variants,           \* the caller's list (the links argument)
    mid_tier,           \* the prefer_hd argument of the call
    best,               \* the value returned
    \* ---- list_videos(limit)
    pc_l,               \* position in list_videos
    limit,              \* the limit argument (-1 for None)
    account,            \* the pages of /me/videos as the API serves them
    next_page,          \* number of the page "next" points to, 0 for None
    page_requests,      \* the pages requested, in order
    shown,              \* the videos displayed, in order
    list_status,        \* -1 while running, 0 on return, 1 on sys.exit(1)
    videos,             \* the list list_videos builds and download_video walks
    \* ---- download_video(video_id, count, debug, prefer_hd, skip_ids)
    pc_r,               \* position in download_video
    video_id,           \* the video_id argument (the empty string for None)
    count,              \* the count argument (-1 for None)
    skip_ids,           \* the skip_ids argument
    cursor,             \* place in videos of the video being processed
    file_path,          \* the target path of the video being processed
    DOWNLOAD_DIR,       \* the files of the download directory
    run_echo,           \* the last line download_video printed
    troubled,           \* the videos a request for which failed, in any run
    run_status,         \* -1 while running, 0 on return, 1 on sys.exit(1)
    run_no,             \* the number of this run of the download command
    dir_before          \* the download directory when this run began

authVars == << pc, client_id, client_secret, browser_open, elapsed,
               token_response, access_token, TOKEN_FILE, exit_code, echo,
               exchange_calls, callback_received, auth_code, socket_open,
               srv, shutdown_request, hpc, cur, wfile, served, backlog,
               sent, refused >>

discVars == << pc_d, video, prefer_hd, requests, responses, result >>

selVars == << pc_s, variants, mid_tier, best >>

listVars == << pc_l, limit, account, next_page, page_requests, shown,
               list_status >>

runVars == << pc_r, video_id, count, skip_ids, cursor, file_path, DOWNLOAD_DIR,
              run_echo, troubled, run_status, run_no, dir_before >>

\* What authenticate and get_best_download_link leave alone.
commandVars == << selVars, listVars, videos, runVars >>

vars == << authVars, discVars, commandVars >>

fgVars == << pc, client_id, client_secret, browser_open, elapsed,
             token_response, access_token, TOKEN_FILE, exit_code, echo,
             exchange_calls >>
handlerVars == << callback_received, auth_code, hpc, cur, wfile, served >>
netVars == << backlog, sent, refused >>

NoRequest == [path |-> << >>, query |-> NoQuery]
NoPage == [page |-> None, code |-> None, error |-> None]

\* get_best_download_link is not running.
DiscoverOff ==
    /\ pc_d = "off"
    /\ video = [t |-> "null"]
    /\ prefer_hd = TRUE
    /\ requests = << >>
    /\ responses = << >>
    /\ result = [t |-> "null"]

\* authenticate is not running (the token file is whatever an earlier
\* authentication left).
AuthOff ==
    /\ pc = "off"
    /\ client_id = "id"
    /\ client_secret = "secret"
    /\ browser_open = FALSE
    /\ elapsed = 0
    /\ token_response = << >>
    /\ access_token = "tok0"
    /\ exit_code = -1
    /\ echo = None
    /\ exchange_calls = 0
    /\ callback_received = FALSE
    /\ auth_code = None
    /\ socket_open = FALSE
    /\ srv = "none"
    /\ shutdown_request = FALSE
    /\ hpc = "idle"
    /\ cur = NoRequest
    /\ wfile = NoPage
    /\ served = << >>
    /\ backlog = << >>
    /\ sent = 0
    /\ refused = 0

\* find_best_resolution is not being called on its own.
SelectOff ==
    /\ pc_s = "off"
    /\ variants = << >>
    /\ mid_tier = TRUE
    /\ best = [t |-> "null"]

\* list_videos is not running.
ListOff ==
    /\ pc_l = "off"
    /\ limit = -1
    /\ account = << >>
    /\ next_page = 0
    /\ page_requests = << >>
    /\ shown = << >>
    /\ list_status = -1
    /\ videos = << >>

\* download_video is not running.
RunOff ==
    /\ pc_r = "off"
    /\ video_id = << >>
    /\ count = -1
    /\ skip_ids = << >>
    /\ cursor = 0
    /\ file_path = << >>
    /\ DOWNLOAD_DIR = {}
    /\ run_echo = None
    /\ troubled = {}
    /\ run_status = -1
    /\ run_no = 0
    /\ dir_before = {}

InitAuth ==
    /\ DiscoverOff
    /\ SelectOff
    /\ ListOff
    /\ RunOff
    /\ pc = "start"
    /\ client_id \in {None, "id"}
    /\ client_secret \in {None, "secret"}
    /\ browser_open = FALSE
    /\ elapsed = 0
    /\ token_response = << >>
    /\ access_token = None
    /\ TOKEN_FILE \in {NoFile, OldToken}
    /\ exit_code = -1
    /\ echo = None
    /\ exchange_calls = 0
    /\ callback_received = FALSE
    /\ auth_code = None
    /\ socket_open = FALSE
    /\ srv = "none"
    /\ shutdown_request = FALSE
    /\ hpc = "idle"
    /\ cur = NoRequest
    /\ wfile = NoPage
    /\ served = << >>
    /\ backlog = << >>
    /\ sent = 0
    /\ refused = 0

(***************************************************************************)
(* sys.exit(1): the process ends, and with it the operating system closes  *)
(* whatever socket the process still holds.                                *)
(***************************************************************************)
SysExit(msg) ==
    /\ pc' = "exited"
    /\ exit_code' = 1
    /\ echo' = msg
    /\ socket_open' = FALSE


(***************************************************************************)
(* authenticate(): the foreground thread                                   *)
(***************************************************************************)
\* if not client_id or not client_secret: ... sys.exit(1)
CheckCredentials ==
    /\ pc = "start"
    /\ IF client_id = None \/ client_secret = None
       THEN SysExit("credentials missing")
       ELSE /\ pc' = "open_browser"
            /\ UNCHANGED << exit_code, echo, socket_open >>
    /\ UNCHANGED << client_id, client_secret, browser_open, elapsed,
                    token_response, access_token, TOKEN_FILE, exchange_calls,
                    srv, shutdown_request >>
    /\ UNCHANGED << handlerVars, netVars, discVars, commandVars >>

\* auth_url = v.auth_url(...); webbrowser.open(auth_url)
OpenBrowser ==
    /\ pc = "open_browser"
    /\ pc' = "create_server"
    /\ browser_open' = TRUE
    /\ echo' = "opening browser"
    /\ UNCHANGED << client_id, client_secret, elapsed, token_response,
                    access_token, TOKEN_FILE, exit_code, exchange_calls,
                    socket_open, srv, shutdown_request >>
    /\ UNCHANGED << handlerVars, netVars, discVars, commandVars >>

\* OAuthCallbackHandler.callback_received = False; .auth_code = None;
\* httpd = socketserver.TCPServer(("", CALLBACK_PORT), OAuthCallbackHandler)
\* (the constructor binds the socket and listens on it)
CreateServer ==
    /\ pc = "create_server"
    /\ pc' = "start_thread"
    /\ callback_received' = FALSE
    /\ auth_code' = None
    /\ socket_open' = TRUE
    /\ srv' = "bound"
    /\ UNCHANGED << client_id, client_secret, browser_open, elapsed,
                    token_response, access_token, TOKEN_FILE, exit_code, echo,
                    exchange_calls, shutdown_request, hpc, cur, wfile, served >>
    /\ UNCHANGED << netVars, discVars, commandVars >>

\* server_thread.start(); timeout = 300; start_time = time.time()
StartThread ==
    /\ pc = "start_thread"
    /\ pc' = "poll"
    /\ srv' = "serving"
    /\ elapsed' = 0
    /\ echo' = "waiting"
    /\ UNCHANGED << client_id, client_secret, browser_open, token_response,
                    access_token, TOKEN_FILE, exit_code, exchange_calls,
                    socket_open, shutdown_request >>
    /\ UNCHANGED << handlerVars, netVars, discVars, commandVars >>

\* A bug the loop's test could have: the timeout is taken one second early.
TimedOut_Early(e) == e >= timeout

\* time.time() - start_time > timeout
TimedOut(e) == e > timeout

\* while not OAuthCallbackHandler.callback_received:
\*     if time.time() - start_time > timeout: ...
\* The clock is read nowhere after the loop has seen the flag: elapsed,
\* which stands for the value of time.time() - start_time the loop's test
\* reads, is then put back to 0.
Poll ==
    /\ pc = "poll"
    /\ IF callback_received
       THEN /\ pc' = "shutdown_captured"
            /\ echo' = echo
            /\ elapsed' = 0
       ELSE IF TimedOut(elapsed)
            THEN /\ pc' = "shutdown_timeout"
                 /\ echo' = "timed out"
                 /\ elapsed' = elapsed
            ELSE /\ pc' = "sleep"
                 /\ echo' = echo
                 /\ elapsed' = elapsed
    /\ UNCHANGED << client_id, client_secret, browser_open,
                    token_response, access_token, TOKEN_FILE, exit_code,
                    exchange_calls, socket_open, srv, shutdown_request >>
    /\ UNCHANGED << handlerVars, netVars, discVars, commandVars >>

\* time.sleep(1).  The loop leaves before sleeping once elapsed > timeout, so
\* the guard on elapsed never blocks the code's own loop.
Sleep ==
    /\ pc = "sleep"
    /\ elapsed <= timeout
    /\ elapsed' = elapsed + 1
    /\ pc' = "poll"
    /\ UNCHANGED << client_id, client_secret, browser_open, token_response,
                    access_token, TOKEN_FILE, exit_code, echo, exchange_calls,
                    socket_open, srv, shutdown_request >>
    /\ UNCHANGED << handlerVars, netVars, discVars, commandVars >>

\* httpd.shutdown(), first half: BaseServer.shutdown sets __shutdown_request
\* and then waits for serve_forever to leave its loop.
BeginShutdown ==
    /\ pc \in {"shutdown_captured", "shutdown_timeout"}
    /\ shutdown_request' = TRUE
    /\ pc' = IF pc = "shutdown_captured" THEN "join_captured" ELSE "join_timeout"
    /\ UNCHANGED << client_id, client_secret, browser_open, elapsed,
                    token_response, access_token, TOKEN_FILE, exit_code, echo,
                    exchange_calls, socket_open, srv >>
    /\ UNCHANGED << handlerVars, netVars, discVars, commandVars >>

\* What httpd.shutdown() leaves of the listening socket when it returns:
\* BaseServer.shutdown only stops the loop; closing the socket is
\* server_close(), which authenticate never calls.
SocketAfterShutdown(open) == open

\* httpd.shutdown(), second half: it returns once the loop has been left.
\* After the timeout branch's shutdown comes sys.exit(1).
EndShutdown ==
    /\ pc \in {"join_captured", "join_timeout"}
    /\ srv = "stopped"
    /\ IF pc = "join_timeout"
       THEN SysExit("timed out")
       ELSE /\ pc' = "check_code"
            /\ socket_open' = SocketAfterShutdown(socket_open)
            /\ UNCHANGED << exit_code, echo >>
    /\ UNCHANGED << client_id, client_secret, browser_open, elapsed,
                    token_response, access_token, TOKEN_FILE, exchange_calls,
                    srv, shutdown_request >>
    /\ UNCHANGED << handlerVars, netVars, discVars, commandVars >>

\* not OAuthCallbackHandler.auth_code
NoCode(c) == c = None \/ c = ""

\* if not OAuthCallbackHandler.auth_code: ... sys.exit(1)
CheckCode ==
    /\ pc = "check_code"
    /\ IF NoCode(auth_code)
       THEN SysExit("no authorization code")
       ELSE /\ pc' = "exchange"
            /\ UNCHANGED << exit_code, echo, socket_open >>
    /\ UNCHANGED << client_id, client_secret, browser_open, elapsed,
                    token_response, access_token, TOKEN_FILE, exchange_calls,
                    srv, shutdown_request >>
    /\ UNCHANGED << handlerVars, netVars, discVars, commandVars >>

\* token_response = v.exchange_code(OAuthCallbackHandler.auth_code, CALLBACK_URL)
\* access_token = token_response[0]
\* An exception (the call raising, or the tuple being empty) reaches
\* "except Exception" and sys.exit(1).
Exchange ==
    /\ pc = "exchange"
    /\ exchange_calls' = exchange_calls + 1
    /\ \E o \in ExchangeOutcomes :
         IF o[1] = "raise" \/ Len(o[2]) = 0
         THEN /\ SysExit("exchange error")
              /\ UNCHANGED << token_response, access_token >>
         ELSE /\ token_response' = o[2]
              /\ access_token' = o[2][1]
              /\ pc' = "check_token"
              /\ UNCHANGED << exit_code, echo, socket_open >>
    /\ UNCHANGED << client_id, client_secret, browser_open, elapsed,
                    TOKEN_FILE, srv, shutdown_request >>
    /\ UNCHANGED << handlerVars, netVars, discVars, commandVars >>

\* A bug CheckToken could have: only a missing token is refused, an empty
\* one is saved.
NoToken_OnlyNone(t) == t = None

\* not access_token
NoToken(t) == t = None \/ t = ""

\* if not access_token: ... sys.exit(1)
CheckToken ==
    /\ pc = "check_token"
    /\ IF NoToken(access_token)
       THEN SysExit("no access token")
       ELSE /\ pc' = "save"
            /\ UNCHANGED << exit_code, echo, socket_open >>
    /\ UNCHANGED << client_id, client_secret, browser_open, elapsed,
                    token_response, access_token, TOKEN_FILE, exchange_calls,
                    srv, shutdown_request >>
    /\ UNCHANGED << handlerVars, netVars, discVars, commandVars >>

\* token_data = {...}
token_data(tok, resp) ==
    [access_token |-> tok,
     scope |-> IF Len(resp) > 2 THEN resp[3] ELSE "",
     created_at |-> "now"]

\* with open(TOKEN_FILE, "w") as f: json.dump(token_data, f); return vimeo_client
SaveToken ==
    /\ pc = "save"
    /\ TOKEN_FILE' = token_data(access_token, token_response)
    /\ pc' = "returned"
    /\ exit_code' = 0
    /\ echo' = "token saved"
    /\ UNCHANGED << client_id, client_secret, browser_open, elapsed,
                    token_response, access_token, exchange_calls,
                    socket_open, srv, shutdown_request >>
    /\ UNCHANGED << handlerVars, netVars, discVars, commandVars >>

Foreground ==
    \/ CheckCredentials
    \/ OpenBrowser
    \/ CreateServer
    \/ StartThread
    \/ Poll
    \/ Sleep
    \/ BeginShutdown
    \/ EndShutdown
    \/ CheckCode
    \/ Exchange
    \/ CheckToken
    \/ SaveToken

(***************************************************************************)
(* The callback server: serve_forever and OAuthCallbackHandler.do_GET      *)
(***************************************************************************)
\* self.path.startswith(CALLBACK_PATH)
IsCallbackPath(path) == StartsWith(path, CALLBACK_PATH)

\* A bug do_GET could have: the branch without a code leaves the slot as it
\* is.
StoredCode_Keep(params) ==
    IF "code" \in DOMAIN params THEN params["code"] ELSE auth_code

\* The value do_GET stores in OAuthCallbackHandler.auth_code:
\* params["code"][0] when "code" in params, None otherwise.
StoredCode(params) ==
    IF "code" \in DOMAIN params THEN params["code"] ELSE None

\* The page do_GET writes: the success page, or the failure page with
\* params.get("error", ["Unknown error"])[0].
ResponsePage(params) ==
    IF "code" \in DOMAIN params
    THEN [page |-> "Authorization Successful", code |-> params["code"],
          error |-> None]
    ELSE [page |-> "Authorization Failed", code |-> None,
          error |-> IF "error" \in DOMAIN params
                    THEN params["error"] ELSE "Unknown error"]

\* super().do_GET(): SimpleHTTPRequestHandler's answer for any other path.
DefaultPage == [page |-> "default", code |-> None, error |-> None]

\* serve_forever takes the next queued connection (it checks
\* __shutdown_request right before) and do_GET runs up to the assignment of
\* auth_code; for another path it runs super().do_GET() to its end.
HandleRequest ==
    /\ srv = "serving"
    /\ hpc = "idle"
    /\ ~shutdown_request
    /\ backlog # << >>
    /\ LET r == Head(backlog)
           params == parse_qs(r.query)
       IN  /\ backlog' = Tail(backlog)
           /\ served' = Append(served, r)
           /\ cur' = r
           /\ IF IsCallbackPath(r.path)
              THEN /\ wfile' = ResponsePage(params)
                   /\ auth_code' = StoredCode(params)
                   /\ hpc' = "signal"
              ELSE /\ wfile' = DefaultPage
                   /\ auth_code' = auth_code
                   /\ hpc' = "idle"
    /\ UNCHANGED << callback_received, sent, refused, socket_open, srv,
                    shutdown_request >>
    /\ UNCHANGED << fgVars, discVars, commandVars >>

\* OAuthCallbackHandler.callback_received = True; return
SignalCallback ==
    /\ hpc = "signal"
    /\ callback_received' = TRUE
    /\ hpc' = "idle"
    /\ UNCHANGED << auth_code, cur, wfile, served, socket_open, srv,
                    shutdown_request >>
    /\ UNCHANGED << fgVars, netVars, discVars, commandVars >>

\* serve_forever leaves its loop once __shutdown_request is set and no
\* request is being handled, and sets __is_shut_down.
LeaveLoop ==
    /\ srv = "serving"
    /\ hpc = "idle"
    /\ shutdown_request
    /\ srv' = "stopped"
    /\ UNCHANGED << socket_open, shutdown_request >>
    /\ UNCHANGED << fgVars, handlerVars, netVars, discVars, commandVars >>

Listener ==
    \/ HandleRequest
    \/ SignalCallback
    \/ LeaveLoop

(***************************************************************************)
(* The browser: after webbrowser.open it may send requests to the callback *)
(* port.  A request that finds the socket listening is queued; one that    *)
(* finds nothing listening is refused and lost.                            *)
(***************************************************************************)
SendRequest ==
    /\ browser_open
    /\ sent < MaxRequests
    /\ sent' = sent + 1
    /\ \E r \in Requests :
         IF socket_open
         THEN /\ backlog' = Append(backlog, r)
              /\ refused' = refused
         ELSE /\ backlog' = backlog
              /\ refused' = refused + 1
    /\ UNCHANGED << socket_open, srv, shutdown_request >>
    /\ UNCHANGED << fgVars, handlerVars, discVars, commandVars >>

NextAuth ==
    \/ Foreground
    \/ Listener
    \/ SendRequest

\* The two threads are scheduled by the operating system: each keeps
\* running while it has a step to take.  Nothing obliges the browser to send
\* a request.
FairAuth ==
    /\ WF_vars(Foreground)
    /\ WF_vars(Listener)

SpecAuth == InitAuth /\ [][NextAuth]_vars /\ FairAuth

(***************************************************************************)
(* What authenticate can read of a callback: the handler class has the two *)
(* attributes callback_received and auth_code, and no slot for an error.   *)
(***************************************************************************)
CallbackResult == [code |-> auth_code, error |-> None]

\* The requests to the redirect path among those served, in order.
Captured == SelectSeq(served, LAMBDA r : IsCallbackPath(r.path))

\* The error value of a request without a code.
ErrorValue(params) ==
    IF "error" \in DOMAIN params THEN params["error"] ELSE "Unknown error"

Terminal == {"returned", "exited"}

(***************************************************************************)
(* Claims about the callback listener and authenticate                     *)
(***************************************************************************)

\* C1: once the first request to the redirect path has been captured, the
\* listener handles no second request to that path and the recorded result
\* does not change any more.
C1_OneCallbackHonored ==
    [][callback_received => (auth_code' = auth_code /\ hpc' = "idle")]_vars

\* C2: when a request to the redirect path carrying code=C (C non-empty) was
\* captured, the result the foreground thread reads after it has seen the
\* flag set is code C.
C2_ForegroundReadsCode ==
    (/\ pc = "check_code"
     /\ Captured # << >>
     /\ "code" \in DOMAIN parse_qs(Captured[1].query))
    => auth_code = parse_qs(Captured[1].query)["code"]

C5_ListenerStopped ==
    (pc \in Terminal /\ srv # "none")
    => (srv = "stopped" /\ ~socket_open)

\* C6: the events of an attempt occur in the order listening, redirect
\* delivered, code captured, code exchanged, token persisted; the
\* authorization URL is presented only when the listener is listening, so
\* that no redirect finds nothing listening.
C6_EventOrder ==
    /\ (pc \notin Terminal /\ browser_open) => socket_open
    /\ (pc \notin Terminal) => refused = 0
    /\ callback_received => Captured # << >>
    /\ exchange_calls > 0 => callback_received
    /\ TOKEN_FILE.created_at = "now" => exchange_calls > 0

\* The failure branches of authenticate, each at the step that takes it.
FailureBranch ==
    \/ pc = "start" /\ (client_id = None \/ client_secret = None)
    \/ pc = "join_timeout"
    \/ pc = "check_code" /\ NoCode(auth_code)
    \/ pc = "exchange" /\ token_response' = token_response
    \/ pc = "check_token" /\ access_token \in {None, ""}

\* C7: the token store is written only after an exchange that returned a
\* non-empty access token; every failure branch leaves the store as it was
\* and ends the attempt with status 1, and an attempt that has ended does
\* not start again.
C7_TokenWrittenOnlyOnSuccess ==
    [][/\ (TOKEN_FILE' # TOKEN_FILE)
          => /\ pc = "save"
             /\ exchange_calls = 1
             /\ access_token \notin {None, ""}
             /\ TOKEN_FILE'.access_token = access_token
             /\ exit_code' = 0
       /\ (pc' # pc /\ FailureBranch)
          => /\ pc' = "exited"
             /\ exit_code' = 1
             /\ TOKEN_FILE' = TOKEN_FILE
       /\ (pc \in Terminal)
          => /\ pc' = pc
             /\ exit_code' = exit_code
             /\ exchange_calls' = exchange_calls
             /\ TOKEN_FILE' = TOKEN_FILE]_vars

C7_Witness ==
    /\ pc = "returned"
    /\ TOKEN_FILE.access_token = "tok1"
    /\ exchange_calls = 1

(***************************************************************************)
(* JSON values, as the API returns them and as the program builds them.    *)
(* A dict keeps its items in order (Python dicts and json.load keep the    *)
(* order of the keys); a string is a sequence of tokens.                   *)
(***************************************************************************)
Null == [t |-> "null"]
Num(n) == [t |-> "num", n |-> n]
Str(s) == [t |-> "str", s |-> s]
List(xs) == [t |-> "list", elems |-> xs]
Dict(kvs) == [t |-> "dict", items |-> kvs]

IsDict(x) == x.t = "dict"
IsList(x) == x.t = "list"
IsNum(x) == x.t = "num"
IsStr(x) == x.t = "str"

\* k in d
HasKey(d, k) == \E i \in 1..Len(d.items) : d.items[i][1] = k

\* d.get(k, default)
Get(d, k, default) ==
    IF HasKey(d, k)
    THEN d.items[CHOOSE i \in 1..Len(d.items) : d.items[i][1] = k][2]
    ELSE default

\* d[k] = v on a key d has
Put(d, k, v) ==
    Dict([i \in 1..Len(d.items) |->
            IF d.items[i][1] = k THEN << k, v >> ELSE d.items[i]])

(***************************************************************************)
(* Strings as token sequences                                              *)
(***************************************************************************)
\* The first place pat occurs in s at or after place from, or 0.
Find(s, pat, from) ==
    LET places == { i \in from..(Len(s) - Len(pat) + 1) :
                      SubSeq(s, i, i + Len(pat) - 1) = pat }
    IN  IF places = {} THEN 0
        ELSE CHOOSE i \in places : \A j \in places : i <= j

\* pat in s
Contains(s, pat) == Find(s, pat, 1) # 0

\* s.split(pat): the pieces of s between the occurrences of pat.
RECURSIVE Split(_, _)
Split(s, pat) ==
    LET i == Find(s, pat, 1)
    IN  IF i = 0 THEN << s >>
        ELSE << SubSeq(s, 1, i - 1) >>
             \o Split(SubSeq(s, i + Len(pat), Len(s)), pat)

\* s.replace(old, new)
RECURSIVE Replace(_, _, _)
Replace(s, old, new) ==
    LET i == Find(s, old, 1)
    IN  IF i = 0 THEN s
        ELSE SubSeq(s, 1, i - 1) \o new
             \o Replace(SubSeq(s, i + Len(old), Len(s)), old, new)

(***************************************************************************)
(* find_best_resolution(links, prefer_hd)                                  *)
(***************************************************************************)
Width(x) == Get(x, "width", Num(0)).n
Height(x) == Get(x, "height", Num(0)).n

\* key=lambda x: x.get("width", 0) * x.get("height", 0)
Area(x) == Width(x) * Height(x)

\* list.sort(key=Area, reverse=True): a stable sort, entries of equal area
\* keep their order.
\* A bug the sort could have: it is not stable, a later entry of equal area
\* goes before the earlier ones.
RECURSIVE InsertByArea_Unstable(_, _)
InsertByArea_Unstable(sorted, x) ==
    IF sorted = << >> THEN << x >>
    ELSE IF Area(Head(sorted)) > Area(x)
         THEN << Head(sorted) >> \o InsertByArea_Unstable(Tail(sorted), x)
         ELSE << x >> \o sorted

RECURSIVE InsertByArea(_, _)
InsertByArea(sorted, x) ==
    IF sorted = << >> THEN << x >>
    ELSE IF Area(Head(sorted)) >= Area(x)
         THEN << Head(sorted) >> \o InsertByArea(Tail(sorted), x)
         ELSE << x >> \o sorted

RECURSIVE SortByArea(_)
SortByArea(links) ==
    IF links = << >> THEN << >>
    ELSE InsertByArea(SortByArea(SubSeq(links, 1, Len(links) - 1)),
                      links[Len(links)])

\* abs(height - target_height)
AbsDiff(a, b) == IF a >= b THEN a - b ELSE b - a

\* target_height = 720
target_height == 720

\* for link in links: ... if height > 0: diff = abs(height - 720);
\*     if diff < min_diff: min_diff = diff; closest_link = link
\* The loop from place i on; min_diff is -1 for float('inf'), closest is the
\* place of closest_link in links (0 for None).
\* A bug the loop could have: diff <= min_diff, the last of the closest
\* entries wins.
RECURSIVE ClosestLoop_Last(_, _, _, _)
ClosestLoop_Last(links, i, min_diff, closest) ==
    IF i > Len(links) THEN closest
    ELSE LET height == Height(links[i])
             diff == AbsDiff(height, target_height)
         IN  IF height > 0 /\ (min_diff = -1 \/ diff <= min_diff)
             THEN ClosestLoop_Last(links, i + 1, diff, i)
             ELSE ClosestLoop_Last(links, i + 1, min_diff, closest)

RECURSIVE ClosestLoop(_, _, _, _)
ClosestLoop(links, i, min_diff, closest) ==
    IF i > Len(links) THEN closest
    ELSE LET height == Height(links[i])
             diff == AbsDiff(height, target_height)
         IN  IF height > 0 /\ (min_diff = -1 \/ diff < min_diff)
             THEN ClosestLoop(links, i + 1, diff, i)
             ELSE ClosestLoop(links, i + 1, min_diff, closest)

ClosestIndex(links) == ClosestLoop(links, 1, -1, 0)

\* What find_best_resolution leaves in the caller's list: it is sorted in
\* place whenever the function sorts.
LinksAfter(links, hd) ==
    IF links = << >> THEN links
    ELSE IF ~hd THEN SortByArea(links)
    ELSE IF ClosestIndex(links) = 0 THEN SortByArea(links)
    ELSE links

\* The value find_best_resolution returns (None for an empty list).
find_best_resolution(links, hd) ==
    IF links = << >> THEN Null
    ELSE IF ~hd THEN SortByArea(links)[1]
    ELSE IF ClosestIndex(links) = 0 THEN SortByArea(links)[1]
    ELSE links[ClosestIndex(links)]

(***************************************************************************)
(* get_best_download_link: the strategies                                  *)
(***************************************************************************)
\* The dict the thumbnail strategy and the recursive scan append.
Harvested(width, height, link) ==
    Dict(<< << "quality", Str(<< "hd" >>) >>,
            << "type", Str(<< "video", "/", "mp4" >>) >>,
            << "width", width >>,
            << "height", height >>,
            << "link", link >>,
            << "size", Num(0) >> >>)

\* "vimeocdn.com" in link or "vimeo.com" in link
OnMediaDomain(link) ==
    \/ Contains(link.s, << "vimeocdn.com" >>)
    \/ Contains(link.s, << "vimeo.com" >>)

\* The test find_direct_links makes of a dict node.
Qualifies(obj) ==
    /\ HasKey(obj, "width") /\ HasKey(obj, "height") /\ HasKey(obj, "link")
    /\ IsNum(Get(obj, "width", Num(0)))
    /\ IsNum(Get(obj, "height", Num(0)))
    /\ Get(obj, "width", Num(0)).n > 0
    /\ Get(obj, "height", Num(0)).n > 0
    /\ IsStr(Get(obj, "link", Str(<< >>)))
    /\ OnMediaDomain(Get(obj, "link", Str(<< >>)))

\* find_direct_links(obj): the nodes harvested, in the order of the walk
\* (a dict node before its values, the values and the list items in order).
RECURSIVE find_direct_links(_)
RECURSIVE ScanAll(_)
find_direct_links(obj) ==
    IF IsDict(obj)
    THEN (IF Qualifies(obj)
          THEN << Harvested(Get(obj, "width", Num(0)),
                            Get(obj, "height", Num(0)),
                            Get(obj, "link", Str(<< >>))) >>
          ELSE << >>)
         \o ScanAll([i \in 1..Len(obj.items) |-> obj.items[i][2]])
    ELSE IF IsList(obj) THEN ScanAll(obj.elems)
    ELSE << >>

ScanAll(values) ==
    IF values = << >> THEN << >>
    ELSE find_direct_links(Head(values)) \o ScanAll(Tail(values))

\* link.replace("i.vimeocdn.com/video", "player.vimeo.com/video"), then the
\* text before the first "_" (the whole text when there is none), then
\* "/video.mp4".
VideoLink(link) ==
    LET replaced == Replace(link, << "i.", "vimeocdn.com", "/video" >>,
                                  << "player.", "vimeo.com", "/video" >>)
    IN  (IF Contains(replaced, << "_" >>)
         THEN Split(replaced, << "_" >>)[1]
         ELSE replaced) \o << "/video.mp4" >>

\* A bug the thumbnail strategy could have: the modified link is appended
\* before the original one.
ThumbnailLinksOf_TwinFirst(size) ==
    IF /\ HasKey(size, "link")
       /\ Width(size) > 0
       /\ Height(size) > 0
       /\ IsStr(Get(size, "link", Null))
       /\ Contains(Get(size, "link", Null).s, << "vimeocdn.com" >>)
    THEN LET link == Get(size, "link", Null)
             raw == Harvested(Get(size, "width", Num(0)),
                              Get(size, "height", Num(0)), link)
             pieces == Split(link.s, << "/video", "/" >>)
         IN  IF Len(pieces) < 2
             THEN << raw >>
             ELSE IF Split(pieces[2], << "-" >>)[1] = << >>
                  THEN << >>
                  ELSE << Harvested(Get(size, "width", Num(0)),
                                    Get(size, "height", Num(0)),
                                    Str(VideoLink(link.s))),
                          raw >>
    ELSE << >>

\* The candidates one picture size contributes to thumbnail_links.
ThumbnailLinksOf(size) ==
    IF /\ HasKey(size, "link")
       /\ Width(size) > 0
       /\ Height(size) > 0
       /\ IsStr(Get(size, "link", Null))
       /\ Contains(Get(size, "link", Null).s, << "vimeocdn.com" >>)
    THEN LET link == Get(size, "link", Null)
             raw == Harvested(Get(size, "width", Num(0)),
                              Get(size, "height", Num(0)), link)
             pieces == Split(link.s, << "/video", "/" >>)
         IN  IF Len(pieces) < 2
             THEN \* IndexError: "Still add the original thumbnail link"
                  << raw >>
             ELSE IF Split(pieces[2], << "-" >>)[1] = << >>
                  THEN << >>
                  ELSE << raw,
                          Harvested(Get(size, "width", Num(0)),
                                    Get(size, "height", Num(0)),
                                    Str(VideoLink(link.s))) >>
    ELSE << >>

RECURSIVE ThumbnailLinks(_)
ThumbnailLinks(sizes) ==
    IF sizes = << >> THEN << >>
    ELSE ThumbnailLinksOf(Head(sizes)) \o ThumbnailLinks(Tail(sizes))

\* "pictures" in video and isinstance(video["pictures"], dict) and "sizes" in
\* video["pictures"], and the sizes are a non-empty list.
HasPictureSizes(v) ==
    /\ HasKey(v, "pictures")
    /\ IsDict(Get(v, "pictures", Null))
    /\ HasKey(Get(v, "pictures", Null), "sizes")
    /\ IsList(Get(Get(v, "pictures", Null), "sizes", Null))
    /\ Len(Get(Get(v, "pictures", Null), "sizes", Null).elems) > 0

PictureSizes(v) == Get(Get(v, "pictures", Null), "sizes", Null).elems

\* picture_sizes.sort(...): the video with its picture sizes sorted in place.
WithSortedPictures(v) ==
    IF HasPictureSizes(v)
    THEN Put(v, "pictures",
             Put(Get(v, "pictures", Null), "sizes",
                 List(SortByArea(PictureSizes(v)))))
    ELSE v

\* A bug the cascade could have: the scan's nodes are looked at only when
\* there are no thumbnail candidates.
DirectLinks_ThumbnailsFirst(v) ==
    IF HasPictureSizes(v)
       /\ ThumbnailLinks(PictureSizes(WithSortedPictures(v))) # << >>
    THEN ThumbnailLinks(PictureSizes(WithSortedPictures(v)))
    ELSE find_direct_links(WithSortedPictures(v))

\* direct_links = thumbnail_links + find_direct_links(video), or
\* find_direct_links(video) alone when there are no picture sizes.
DirectLinks(v) ==
    IF HasPictureSizes(v)
    THEN ThumbnailLinks(PictureSizes(WithSortedPictures(v)))
         \o find_direct_links(WithSortedPictures(v))
    ELSE find_direct_links(v)

\* download_links = video.get("download", [])
DownloadLinks(v) ==
    LET d == Get(v, "download", List(<< >>))
    IN  IF IsList(d) THEN d.elems ELSE << >>

\* The dict the files strategy builds of a file entry.
FileLink(file) ==
    Dict(<< << "quality", Get(file, "quality", Str(<< "unknown" >>)) >>,
            << "type", Get(file, "type", Str(<< "video", "/", "mp4" >>)) >>,
            << "width", Get(file, "width", Num(0)) >>,
            << "height", Get(file, "height", Num(0)) >>,
            << "link", Get(file, "link", Null) >>,
            << "size", Get(file, "size", Num(0)) >> >>)

\* The file_links the files strategy builds of a non-empty files list.  With
\* a dict in the first place every entry is read with .get, which raises
\* on an entry that is no dict ("Error processing files", and None is
\* returned: no file_links); otherwise the dict entries of quality "hd" are
\* kept.
FileLinks(files) ==
    IF IsDict(files[1])
    THEN IF \A i \in 1..Len(files) : IsDict(files[i])
         THEN [i \in 1..Len(files) |-> FileLink(files[i])]
         ELSE << >>
    ELSE LET progressive_files ==
                 SelectSeq(files, LAMBDA f :
                     IsDict(f) /\ Get(f, "quality", Null) = Str(<< "hd" >>))
         IN  [i \in 1..Len(progressive_files) |-> FileLink(progressive_files[i])]

\* What the files strategy returns for a non-empty files list:
\* find_best_resolution(file_links, prefer_hd), which is never None for a
\* non-empty file_links (the "fallback" after it is never reached).
FilesResult(files, hd) == find_best_resolution(FileLinks(files), hd)

(***************************************************************************)
(* The API client: client.get raises, or returns a response.               *)
(***************************************************************************)
Raise == [kind |-> "raise"]
Http(status, body) == [kind |-> "http", status |-> status, body |-> body]

Ok(r) == r.kind = "http" /\ r.status = 200

\* video_id = video["uri"].split("/")[-1]
VideoId(v) ==
    LET pieces == Split(Get(v, "uri", Str(<< >>)).s, << "/" >>)
    IN  pieces[Len(pieces)]

ReqDownload(v) ==
    [path |-> << "/", "videos", "/" >> \o VideoId(v) \o << "/", "download" >>,
     fields |-> None]
ReqFieldsDownload(v) ==
    [path |-> << "/", "videos", "/" >> \o VideoId(v), fields |-> "download"]
ReqFieldsFiles(v) ==
    [path |-> << "/", "videos", "/" >> \o VideoId(v), fields |-> "files"]

(***************************************************************************)
(* Inputs: video resources and responses                                   *)
(***************************************************************************)
Mp4 == Str(<< "video", "/", "mp4" >>)

\* An entry of a download or files list.
Variant(quality, w, h, link) ==
    Dict(<< << "quality", Str(<< quality >>) >>, << "type", Mp4 >>,
            << "width", Num(w) >>, << "height", Num(h) >>,
            << "link", Str(link) >>, << "size", Num(1) >> >>)

Url(host, name) == << "https://" >> \o host \o << "/", name >>

\* A picture size: a thumbnail on the image CDN.
Thumb(w, h, id, suffix) ==
    Dict(<< << "width", Num(w) >>, << "height", Num(h) >>,
            << "link", Str(<< "https://", "i.", "vimeocdn.com", "/video", "/",
                              id, "-", "abc", "-", "d", "_", suffix >>) >> >>)

Sized(w, h, link) ==
    Dict(<< << "width", w >>, << "height", h >>, << "link", link >> >>)

V360 == Variant("sd", 640, 360, Url(<< "player.", "vimeo.com" >>, "a360"))
V720 == Variant("hd", 1280, 720, Url(<< "player.", "vimeo.com" >>, "a720"))
V1080 == Variant("hd", 1920, 1080, Url(<< "player.", "vimeo.com" >>, "a1080"))
V1080b == Variant("hd", 1920, 1080, Url(<< "player.", "vimeo.com" >>, "b1080"))
V0a == Variant("sd", 640, 0, Url(<< "player.", "vimeo.com" >>, "a0"))
V0b == Variant("sd", 1280, 0, Url(<< "player.", "vimeo.com" >>, "b0"))

\* For a key the video does not have.
Absent == [t |-> "absent"]

\* The value of the video's "download" key, or Absent for no such key.
DirectOptions ==
    { Absent,
      List(<< >>),
      List(<< V720 >>),
      List(<< V360, V1080 >>),
      List(<< V1080, V1080b, V360 >>),
      List(<< V0a, V0b >>) }

\* The value of the video's "pictures" key, or Absent.
PictureOptions ==
    { Absent,
      Null,
      Dict(<< << "sizes", List(<< >>) >> >>),
      Dict(<< << "sizes", List(<< Thumb(640, 360, "111", "640x360") >>) >> >>),
      Dict(<< << "sizes", List(<< Thumb(640, 360, "111", "640x360"),
                                  Thumb(1280, 720, "111", "1280x720") >>) >> >>),
      \* a CDN link without the /video/ segment
      Dict(<< << "sizes", List(<< Sized(Num(640), Num(360),
                 Str(<< "https://", "i.", "vimeocdn.com", "/img", "/", "x" >>)) >>) >> >>),
      \* a CDN link with nothing after /video/
      Dict(<< << "sizes", List(<< Sized(Num(640), Num(360),
                 Str(<< "https://", "i.", "vimeocdn.com", "/video", "/" >>)) >>) >> >>),
      \* a link elsewhere
      Dict(<< << "sizes", List(<< Sized(Num(640), Num(360),
                 Str(Url(<< "example.com" >>, "p"))) >>) >> >>),
      \* no dimensions
      Dict(<< << "sizes", List(<< Sized(Num(0), Num(0),
                 Str(<< "https://", "i.", "vimeocdn.com", "/video", "/",
                        "111", "-", "abc" >>)) >>) >> >>) }

\* The value of one more key of the video ("embed"), or Absent.
NestedOptions ==
    { Absent,
      Num(5),
      \* a qualifying node inside a list inside a dict
      Dict(<< << "renditions", List(<< Str(<< "x" >>),
                 Sized(Num(1280), Num(720),
                       Str(Url(<< "player.", "vimeo.com" >>, "n720"))) >>) >> >>),
      \* a node on another host, with a qualifying child
      Dict(<< << "width", Num(640) >>, << "height", Num(360) >>,
              << "link", Str(Url(<< "example.com" >>, "n360")) >>,
              << "child", Sized(Num(1920), Num(1080),
                      Str(Url(<< "i.", "vimeocdn.com" >>, "n1080"))) >> >>),
      \* dimensions that are no numbers
      Sized(Str(<< "1280" >>), Str(<< "720" >>),
            Str(Url(<< "player.", "vimeo.com" >>, "s720"))),
      \* the media domain in the path, not in the host
      Sized(Num(640), Num(360),
            Str(<< "https://", "example.com", "/", "vimeo.com" >>)) }

\* The video resource made of these parts, its keys in this order.
MakeVideo(direct, pictures, nested) ==
    Dict(<< << "uri", Str(<< "/", "videos", "/", "123" >>) >>,
            << "name", Str(<< "clip" >>) >> >>
         \o (IF direct = Absent THEN << >> ELSE << << "download", direct >> >>)
         \o (IF pictures = Absent THEN << >> ELSE << << "pictures", pictures >> >>)
         \o (IF nested = Absent THEN << >> ELSE << << "embed", nested >> >>))

DownloadResponses ==
    { Raise,
      Http(403, Null),
      Http(200, List(<< >>)),
      Http(200, Dict(<< >>)),
      Http(200, List(<< V360, V720 >>)) }

FieldsDownloadResponses ==
    { Raise,
      Http(404, Null),
      Http(200, Dict(<< >>)),
      Http(200, Dict(<< << "download", List(<< >>) >> >>)),
      Http(200, Dict(<< << "download", List(<< V1080, V360 >>) >> >>)) }

FieldsFilesResponses ==
    { Raise,
      Http(404, Null),
      Http(200, Dict(<< >>)),
      Http(200, Dict(<< << "files", List(<< >>) >> >>)),
      Http(200, Dict(<< << "files", List(<< V720, V360 >>) >> >>)),
      \* entries without link and dimensions
      Http(200, Dict(<< << "files", List(<<
            Dict(<< << "quality", Str(<< "hls" >>) >> >>) >>) >> >>)),
      \* entries that are no dicts
      Http(200, Dict(<< << "files", List(<< Str(<< "x" >>) >>) >> >>)),
      Http(200, Dict(<< << "files", List(<< Str(<< "x" >>), V360, V720 >>) >> >>)),
      Http(200, Dict(<< << "files", List(<< V720, Str(<< "x" >>) >>) >> >>)) }

(***************************************************************************)
(* get_best_download_link(video, client, debug, prefer_hd): one action per *)
(* strategy that looks at the resource or makes a request.                 *)
(***************************************************************************)
InitDiscover ==
    /\ AuthOff
    /\ TOKEN_FILE = OldToken
    /\ SelectOff
    /\ ListOff
    /\ RunOff
    /\ pc_d = "direct"
    /\ \E direct \in DirectOptions, pictures \in PictureOptions,
          nested \in NestedOptions :
          video = MakeVideo(direct, pictures, nested)
    /\ prefer_hd \in BOOLEAN
    /\ requests = << >>
    /\ responses = << >>
    /\ result = Null

\* A bug the direct strategy could have: a single direct link is not taken.
HasDirectLinks_MoreThanOne(links) == Len(links) > 1

\* if download_links:
HasDirectLinks(links) == Len(links) > 0

\* Strategy 1: download_links = video.get("download", []); if download_links:
\* return find_best_resolution(download_links, prefer_hd)
DirectField ==
    /\ pc_d = "direct"
    /\ LET download_links == DownloadLinks(video)
       IN  IF HasDirectLinks(download_links)
           THEN /\ result' = find_best_resolution(download_links, prefer_hd)
                /\ video' = Put(video, "download",
                                List(LinksAfter(download_links, prefer_hd)))
                /\ pc_d' = "done"
           ELSE /\ pc_d' = "json"
                /\ UNCHANGED << result, video >>
    /\ UNCHANGED << prefer_hd, requests, responses >>
    /\ UNCHANGED << authVars, commandVars >>

\* Strategies 2 and 3: the picture sizes are sorted in place, the thumbnail
\* candidates and the scan's nodes are put in one list; if direct_links:
\* return find_best_resolution(direct_links, prefer_hd)
ThumbnailsAndScan ==
    /\ pc_d = "json"
    /\ video' = WithSortedPictures(video)
    /\ LET direct_links == DirectLinks(video)
       IN  IF direct_links # << >>
           THEN /\ result' = find_best_resolution(direct_links, prefer_hd)
                /\ pc_d' = "done"
           ELSE /\ pc_d' = "ep_download"
                /\ result' = result
    /\ UNCHANGED << prefer_hd, requests, responses >>
    /\ UNCHANGED << authVars, commandVars >>

\* A bug the cascade could have: a strategy that found nothing ends the
\* cascade.
AfterStrategy_Abort(stage) == "done"

\* Where the cascade goes after a strategy that returned nothing: the
\* except clauses and the else branches of strategies 4 and 5 fall through
\* to the next strategy; strategy 6 returns None.
AfterStrategy(stage) ==
    CASE stage = "ep_download" -> "ep_fields_download"
      [] stage = "ep_fields_download" -> "ep_fields_files"
      [] stage = "ep_fields_files" -> "done"

\* The list strategy 4 takes from its response: download_data, when the
\* status is 200 and the body a non-empty list.
DownloadHarvest(r) ==
    IF Ok(r) /\ IsList(r.body) THEN r.body.elems ELSE << >>

\* Strategy 4: response = client.get(f"/videos/{video_id}/download")
DownloadEndpoint ==
    /\ pc_d = "ep_download"
    /\ requests' = Append(requests, ReqDownload(video))
    /\ \E r \in DownloadResponses :
         /\ responses' = Append(responses, r)
         /\ IF DownloadHarvest(r) # << >>
            THEN /\ result' = find_best_resolution(DownloadHarvest(r), prefer_hd)
                 /\ pc_d' = "done"
            ELSE /\ pc_d' = AfterStrategy(pc_d)
                 /\ result' = result
    /\ UNCHANGED << video, prefer_hd >>
    /\ UNCHANGED << authVars, commandVars >>

\* The list strategy 5 takes from its response:
\* video_data.get("download", []) when the status is 200.
FieldsDownloadHarvest(r) ==
    IF Ok(r) /\ IsDict(r.body) /\ IsList(Get(r.body, "download", List(<< >>)))
    THEN Get(r.body, "download", List(<< >>)).elems
    ELSE << >>

\* Strategy 5: response = client.get(f"/videos/{video_id}",
\*                                   params={"fields": "download"})
FieldsDownload ==
    /\ pc_d = "ep_fields_download"
    /\ requests' = Append(requests, ReqFieldsDownload(video))
    /\ \E r \in FieldsDownloadResponses :
         /\ responses' = Append(responses, r)
         /\ IF FieldsDownloadHarvest(r) # << >>
            THEN /\ result' = find_best_resolution(FieldsDownloadHarvest(r),
                                                   prefer_hd)
                 /\ pc_d' = "done"
            ELSE /\ pc_d' = AfterStrategy(pc_d)
                 /\ result' = result
    /\ UNCHANGED << video, prefer_hd >>
    /\ UNCHANGED << authVars, commandVars >>

\* The list strategy 6 takes from its response: video_data.get("files", [])
\* when the status is 200.
FilesOf(r) ==
    IF Ok(r) /\ IsDict(r.body) /\ IsList(Get(r.body, "files", List(<< >>)))
    THEN Get(r.body, "files", List(<< >>)).elems
    ELSE << >>

\* Strategy 6: response = client.get(f"/videos/{video_id}",
\*                                   params={"fields": "files"})
FieldsFiles ==
    /\ pc_d = "ep_fields_files"
    /\ requests' = Append(requests, ReqFieldsFiles(video))
    /\ \E r \in FieldsFilesResponses :
         /\ responses' = Append(responses, r)
         /\ IF FilesOf(r) # << >>
            THEN /\ result' = FilesResult(FilesOf(r), prefer_hd)
                 /\ pc_d' = "done"
            ELSE /\ pc_d' = AfterStrategy(pc_d)
                 /\ result' = Null
    /\ UNCHANGED << video, prefer_hd >>
    /\ UNCHANGED << authVars, commandVars >>

NextDiscover ==
    \/ DirectField
    \/ ThumbnailsAndScan
    \/ DownloadEndpoint
    \/ FieldsDownload
    \/ FieldsFiles

SpecDiscover == InitDiscover /\ [][NextDiscover]_vars

(***************************************************************************)
(* Claims about the cascade                                                *)
(***************************************************************************)
\* What each strategy harvested, read off the resource and the responses
\* (nothing for a request that was not made).
HarvestDirect == DownloadLinks(video)
HarvestThumbnails ==
    IF HasPictureSizes(video)
    THEN ThumbnailLinks(PictureSizes(WithSortedPictures(video)))
    ELSE << >>
HarvestScan == find_direct_links(WithSortedPictures(video))
HarvestDownload ==
    IF Len(responses) >= 1 THEN DownloadHarvest(responses[1]) ELSE << >>
HarvestFieldsDownload ==
    IF Len(responses) >= 2 THEN FieldsDownloadHarvest(responses[2]) ELSE << >>
HarvestFiles ==
    IF Len(responses) >= 3 /\ FilesOf(responses[3]) # << >>
    THEN FileLinks(FilesOf(responses[3]))
    ELSE << >>

\* The first non-empty list of a sequence of lists (the empty list if none).
RECURSIVE FirstNonEmpty(_)
FirstNonEmpty(lists) ==
    IF lists = << >> THEN << >>
    ELSE IF Head(lists) # << >> THEN Head(lists)
    ELSE FirstNonEmpty(Tail(lists))

\* C8 as stated: discover returns the selector's choice from the harvest of
\* the first strategy, in the order direct field, thumbnails, recursive
\* scan, download endpoint, fields=download, fields=files, whose harvest is
\* not empty.
C8_StrictOrder ==
    pc_d = "done"
    => result = find_best_resolution(
                    FirstNonEmpty(<< HarvestDirect, HarvestThumbnails,
                                     HarvestScan, HarvestDownload,
                                     HarvestFieldsDownload, HarvestFiles >>),
                    prefer_hd)

\* C8 as amended: the thumbnail candidates and the recursive scan's nodes
\* form one harvest (thumbnails first, then the scan's nodes); discover
\* returns the selector's choice from the first non-empty harvest in the
\* order direct field, thumbnails with scan, download endpoint,
\* fields=download, fields=files.
C8_ThumbnailsWithScan ==
    pc_d = "done"
    => result = find_best_resolution(
                    FirstNonEmpty(<< HarvestDirect,
                                     HarvestThumbnails \o HarvestScan,
                                     HarvestDownload,
                                     HarvestFieldsDownload, HarvestFiles >>),
                    prefer_hd)

C8_Witness ==
    /\ pc_d = "done"
    /\ HarvestDirect = << >>
    /\ HarvestThumbnails # << >>
    /\ \E i \in 1..Len(HarvestScan) :
         /\ \A j \in 1..Len(HarvestThumbnails) :
              HarvestThumbnails[j] # HarvestScan[i]
         /\ result = HarvestScan[i]

\* C9: with a non-empty direct download list discover returns the
\* selector's choice from that list, and no request is made to the API
\* client.
C9_DirectShortCircuit ==
    (pc_d = "done" /\ HarvestDirect # << >>)
    => /\ result = find_best_resolution(HarvestDirect, prefer_hd)
       /\ \E i \in 1..Len(HarvestDirect) : result = HarvestDirect[i]
       /\ requests = << >>
       /\ responses = << >>

C9_Witness ==
    /\ pc_d = "done"
    /\ Len(HarvestDirect) = 1
    /\ HasPictureSizes(video)
    /\ requests = << >>

\* The requests of strategies 4, 5 and 6, in their order.
EndpointOrder ==
    << ReqDownload(video), ReqFieldsDownload(video), ReqFieldsFiles(video) >>

\* A strategy's request did not give a 200: it raised, or the status is
\* another one.
Failed(r) == ~Ok(r)

\* C10: the endpoint requests are made only when strategies 1-3 harvested
\* nothing, each at most once and in the order download, fields=download,
\* fields=files; after a request that raised or gave a non-200 status the
\* next strategy's request is made all the same, and discover ends by
\* returning (none, when the last request failed too).
C10_EndpointFailuresSkipped ==
    /\ Len(requests) <= 3
    /\ requests = SubSeq(EndpointOrder, 1, Len(requests))
    /\ requests # << >>
       => (HarvestDirect = << >> /\ HarvestThumbnails \o HarvestScan = << >>)
    /\ pc_d = "done"
       => /\ (HarvestDirect = << >> /\ HarvestThumbnails \o HarvestScan = << >>)
             => Len(requests) >= 1
          /\ (Len(responses) >= 1 /\ Failed(responses[1]))
             => Len(requests) >= 2
          /\ (Len(responses) >= 2 /\ Failed(responses[2]))
             => Len(requests) = 3
          /\ (Len(responses) = 3 /\ Failed(responses[3]))
             => result = Null

C10_Witness ==
    /\ pc_d = "done"
    /\ Len(requests) = 3
    /\ responses[1] = Raise
    /\ responses[2].kind = "http" /\ responses[2].status # 200
    /\ Ok(responses[3])
    /\ result # Null

\* A valid variant: a non-empty link and positive dimensions.
ValidVariant(x) ==
    /\ IsDict(x)
    /\ IsStr(Get(x, "link", Null))
    /\ Get(x, "link", Null).s # << >>
    /\ Width(x) > 0
    /\ Height(x) > 0

\* C11: what discover returns from the files strategy is a valid variant;
\* when the fields=files response has entries and none of them is a valid
\* variant, discover returns none.
C11_FilesNeverInvalid ==
    (pc_d = "done" /\ Len(responses) = 3 /\ FilesOf(responses[3]) # << >>)
    => /\ result # Null => ValidVariant(result)
       /\ (\A i \in 1..Len(FilesOf(responses[3])) :
              ~ValidVariant(FilesOf(responses[3])[i]))
          => result = Null

(***************************************************************************)
(* find_best_resolution called on its own, on every list of a bounded set  *)
(***************************************************************************)
\* The longest list the selector is called on.
MaxLinks == 3

\* An entry with a link only: .get("width", 0) and .get("height", 0) give 0.
VNoDims == Dict(<< << "link", Str(Url(<< "player.", "vimeo.com" >>, "nodims")) >> >>)

SelectVariants == { V360, V720, V1080, V1080b, V0a, V0b, VNoDims }

InitSelect ==
    /\ AuthOff
    /\ TOKEN_FILE = OldToken
    /\ DiscoverOff
    /\ ListOff
    /\ RunOff
    /\ pc_s = "call"
    /\ variants \in UNION { [1..m -> SelectVariants] : m \in 0..MaxLinks }
    /\ mid_tier \in BOOLEAN
    /\ best = Null

\* best = find_best_resolution(variants, mid_tier); the list is the caller's
\* object, which the function sorts in place when it sorts.
CallSelect ==
    /\ pc_s = "call"
    /\ best' = find_best_resolution(variants, mid_tier)
    /\ variants' = LinksAfter(variants, mid_tier)
    /\ pc_s' = "returned"
    /\ UNCHANGED mid_tier
    /\ UNCHANGED << authVars, discVars, listVars, videos, runVars >>

NextSelect == CallSelect

SpecSelect == InitSelect /\ [][NextSelect]_vars

MaxPages == 3

\* A video resource with the identifier and the name given.
Renamed(v, id, name) ==
    Put(Put(v, "uri", Str(<< "/", "videos", "/", id >>)), "name", Str(name))

\* A video with a direct download list, and one with no candidate anywhere.
VidA == Renamed(MakeVideo(List(<< V360, V720 >>), Absent, Absent), "111", << "alpha" >>)
VidB == Renamed(MakeVideo(Absent, Absent, Absent), "222", << "be", "/", "ta" >>)

\* What the API serves for a page of /me/videos: the request raises, or a
\* response comes whose body holds the page's "data"; its "paging.next"
\* names the page that follows it in the account, if there is one.
PageOptions ==
    { Raise,
      Http(500, Null),
      Http(200, List(<< >>)),
      Http(200, List(<< VidA >>)),
      Http(200, List(<< VidB, VidA >>)) }

InitList ==
    /\ AuthOff
    /\ TOKEN_FILE \in {NoFile, OldToken}
    /\ DiscoverOff
    /\ SelectOff
    /\ RunOff
    /\ pc_l = "client"
    /\ limit \in {-1, 1, 2, 3}
    /\ account \in UNION { [1..m -> PageOptions] : m \in 1..MaxPages }
    /\ next_page = 0
    /\ page_requests = << >>
    /\ shown = << >>
    /\ list_status = -1
    /\ videos = << >>

\* client = get_vimeo_client(): without a token file holding an access
\* token, "No valid authentication token found" and sys.exit(1).
ListClient ==
    /\ pc_l = "client"
    /\ IF TOKEN_FILE.access_token \in {None, ""}
       THEN pc_l' = "exited" /\ list_status' = 1
       ELSE pc_l' = "first" /\ list_status' = list_status
    /\ UNCHANGED << limit, account, next_page, page_requests, shown, videos >>
    /\ UNCHANGED << authVars, discVars, selVars, runVars >>

\* response = client.get("/me/videos", ...): a raise or a status other
\* than 200 ends in sys.exit(1); else videos and next_page are read.
FirstPage ==
    /\ pc_l = "first"
    /\ page_requests' = << 1 >>
    /\ IF Ok(account[1])
       THEN /\ videos' = account[1].body.elems
            /\ next_page' = IF Len(account) > 1 THEN 2 ELSE 0
            /\ pc_l' = "more"
            /\ list_status' = list_status
       ELSE /\ pc_l' = "exited"
            /\ list_status' = 1
            /\ UNCHANGED << videos, next_page >>
    /\ UNCHANGED << limit, account, shown >>
    /\ UNCHANGED << authVars, discVars, selVars, runVars >>

\* while next_page and (limit is None or total_videos < limit)
MorePages ==
    next_page # 0 /\ (limit = -1 \/ Len(videos) < limit)

\* A bug the loop could have: a failed follow-up page ends the command.
AfterBadPage_Fatal == "exited"

\* if response.status_code != 200: break
AfterBadPage == "display"

\* One turn of the while loop: the page next_page names is requested.
NextPage ==
    /\ pc_l = "more"
    /\ MorePages
    /\ page_requests' = Append(page_requests, next_page)
    /\ LET response == account[next_page]
           extended == videos \o response.body.elems
       IN  CASE response = Raise ->
                  /\ pc_l' = "exited"
                  /\ list_status' = 1
                  /\ UNCHANGED << videos, next_page >>
             [] response # Raise /\ ~Ok(response) ->
                  /\ pc_l' = AfterBadPage
                  /\ list_status' = IF AfterBadPage = "exited" THEN 1
                                    ELSE list_status
                  /\ UNCHANGED << videos, next_page >>
             [] Ok(response) ->
                  /\ next_page' = IF Len(account) > next_page
                                  THEN next_page + 1 ELSE 0
                  /\ list_status' = list_status
                  /\ IF limit > 0 /\ Len(extended) >= limit
                     THEN /\ videos' = SubSeq(extended, 1, limit)
                          /\ pc_l' = "display"
                     ELSE /\ videos' = extended
                          /\ pc_l' = "more"
    /\ UNCHANGED << limit, account, shown >>
    /\ UNCHANGED << authVars, discVars, selVars, runVars >>

\* After the loop: "No videos found in your account." and return [], or the
\* videos are displayed and returned.  (The videos are taken to hold the
\* fields the display formats.)
Display ==
    /\ pc_l = "display" \/ (pc_l = "more" /\ ~MorePages)
    /\ shown' = videos
    /\ pc_l' = "returned"
    /\ list_status' = 0
    /\ UNCHANGED << limit, account, next_page, page_requests, videos >>
    /\ UNCHANGED << authVars, discVars, selVars, runVars >>

NextList ==
    \/ ListClient
    \/ FirstPage
    \/ NextPage
    \/ Display

SpecList == InitList /\ [][NextList]_vars

(***************************************************************************)
(* Claims about list_videos                                                *)
(***************************************************************************)
\* C18: with a limit N > 0, list returns and displays at most N videos.
C18_AtMostLimit ==
    (pc_l = "returned" /\ limit > 0)
    => (Len(videos) <= limit /\ Len(shown) <= limit)

\* The "data" of the first k pages of the account, in page order.
RECURSIVE Gathered(_)
Gathered(k) ==
    IF k = 0 THEN << >> ELSE Gathered(k - 1) \o account[k].body.elems

\* A response came and its status is not 200.
BadStatus(r) == r # Raise /\ ~Ok(r)

\* C19: a follow-up page that gives a status other than 200 is the last
\* page requested; the listing is not ended with an error by it, it goes on
\* to display and return exactly the videos of the pages before it, in
\* page order.
C19_BadPageStopsPaging ==
    \A k \in 2..Len(page_requests) :
       BadStatus(account[page_requests[k]])
       => /\ k = Len(page_requests)
          /\ page_requests = [i \in 1..k |-> i]
          /\ pc_l \in {"display", "returned"}
          /\ videos = Gathered(k - 1)
          /\ pc_l = "returned" => (list_status = 0 /\ shown = videos)
          /\ pc_l = "display" => list_status = -1

C19_Witness ==
    /\ pc_l = "returned"
    /\ Len(page_requests) = 3
    /\ BadStatus(account[3])
    /\ shown = << VidA, VidB, VidA >>
    /\ list_status = 0

(***************************************************************************)
(* download_video(video_id, count, debug, prefer_hd, skip_ids)             *)
(***************************************************************************)
\* The number of times the download command is run over the same account
\* and the same download directory, with the same arguments.
MaxRuns == 2

\* id.strip(), for strings whose whitespace is the token " ".
RECURSIVE Strip(_)
Strip(s) ==
    IF s # << >> /\ Head(s) = " " THEN Strip(Tail(s))
    ELSE IF s # << >> /\ s[Len(s)] = " " THEN Strip(SubSeq(s, 1, Len(s) - 1))
    ELSE s

\* parse_skip_ids(ctx, param, value): [] for no value, else the pieces
\* between the commas, stripped.
parse_skip_ids(value) ==
    IF value = << >> THEN << >>
    ELSE LET pieces == Split(value, << "," >>)
         IN  [i \in 1..Len(pieces) |-> Strip(pieces[i])]

\* safe_name: every character that is not alphanumeric or one of " ._-"
\* becomes "_".
SafeName(name) ==
    [i \in 1..Len(name) |-> IF name[i] \in {"/", ":"} THEN "_" ELSE name[i]]

\* file_path = DOWNLOAD_DIR / f"{safe_name}_{video_id}.{file_ext}", with
\* file_ext = download_link["type"].split("/")[-1]
FilePath(v, download_link) ==
    LET pieces == Split(Get(download_link, "type", Null).s, << "/" >>)
    IN  SafeName(Get(v, "name", Null).s) \o << "_" >> \o VideoId(v)
        \o << "." >> \o pieces[Len(pieces)]

\* file_path.exists()
Exists(path) == \E f \in DOWNLOAD_DIR : f.path = path

\* The accounts the download command is run on.
DownloadAccounts ==
    { << Http(500, Null) >>,
      << Http(200, List(<< >>)) >>,
      << Http(200, List(<< VidA >>)), Http(200, List(<< VidB, VidA >>)) >>,
      << Http(200, List(<< VidB, VidA >>)) >> }

InitDownload ==
    /\ AuthOff
    /\ TOKEN_FILE \in {NoFile, OldToken}
    /\ DiscoverOff
    /\ SelectOff
    /\ pc_l = "off"
    /\ limit = -1
    /\ account \in DownloadAccounts
    /\ next_page = 0
    /\ page_requests = << >>
    /\ shown = << >>
    /\ list_status = -1
    /\ videos = << >>
    /\ pc_r = "client"
    /\ video_id \in { << >>, VideoId(VidB) }
    /\ count \in {-1, 1}
    /\ skip_ids \in { parse_skip_ids(<< >>),
                       parse_skip_ids(<< "222" >>),
                       parse_skip_ids(<< "333", ",", " ", "111" >>) }
    /\ cursor = 0
    /\ file_path = << >>
    /\ DOWNLOAD_DIR = {}
    /\ run_echo = None
    /\ troubled = {}
    /\ run_status = -1
    /\ run_no = 1
    /\ dir_before = {}

\* What a step of download_video leaves alone when it does not say
\* otherwise.
RunFrame ==
    UNCHANGED << authVars, selVars, video_id, count, skip_ids, prefer_hd,
                 limit, account, run_no, dir_before >>

\* sys.exit(1), from get_vimeo_client or from "except Exception".
RunExit(msg) ==
    /\ pc_r' = "exited"
    /\ run_status' = 1
    /\ run_echo' = msg

\* return
RunReturn(msg) ==
    /\ pc_r' = "returned"
    /\ run_status' = 0
    /\ run_echo' = msg

\* client = get_vimeo_client(); DOWNLOAD_DIR.mkdir(exist_ok=True); then the
\* video is fetched, or list_videos() is called.
RunClient ==
    /\ pc_r = "client"
    /\ IF TOKEN_FILE.access_token \in {None, ""}
       THEN RunExit("no token") /\ pc_l' = pc_l
       ELSE /\ pc_r' = IF video_id # << >> THEN "fetch" ELSE "listing"
            /\ pc_l' = IF video_id # << >> THEN pc_l ELSE "client"
            /\ UNCHANGED << run_status, run_echo >>
    /\ UNCHANGED << next_page, page_requests, shown, list_status, videos,
                    cursor, file_path, DOWNLOAD_DIR, troubled >>
    /\ UNCHANGED << pc_d, video, requests, responses, result >>
    /\ RunFrame

\* if not videos: return; if count is not None and count > 0:
\* videos = videos[:count]; then the loop begins.
EnterLoop(vs) ==
    IF vs = << >>
    THEN RunReturn("no videos") /\ UNCHANGED << videos, cursor >>
    ELSE /\ videos' = IF count > 0 /\ count < Len(vs)
                      THEN SubSeq(vs, 1, count) ELSE vs
         /\ cursor' = 1
         /\ pc_r' = "loop"
         /\ UNCHANGED << run_status, run_echo >>

\* What the API serves for /videos/{video_id}.
FetchResponses == { Raise, Http(404, Null), Http(200, VidB) }

\* response = client.get(f"/videos/{video_id}"): on a status other than 200
\* "Error fetching video" and return; a raise ends in sys.exit(1).
FetchVideo ==
    /\ pc_r = "fetch"
    /\ \E response \in FetchResponses :
         CASE response = Raise ->
                /\ RunExit("error downloading videos")
                /\ troubled' = troubled \cup {video_id}
                /\ UNCHANGED << videos, cursor >>
           [] response # Raise /\ ~Ok(response) ->
                /\ RunReturn("error fetching video")
                /\ troubled' = troubled \cup {video_id}
                /\ UNCHANGED << videos, cursor >>
           [] Ok(response) ->
                EnterLoop(<< response.body >>) /\ troubled' = troubled
    /\ UNCHANGED << listVars, file_path, DOWNLOAD_DIR >>
    /\ UNCHANGED << pc_d, video, requests, responses, result >>
    /\ RunFrame

\* videos = list_videos(): its sys.exit(1) ends download_video too.
ListDone ==
    /\ pc_r = "listing"
    /\ pc_l \in {"returned", "exited"}
    /\ IF pc_l = "exited"
       THEN RunExit("error listing videos") /\ UNCHANGED << videos, cursor >>
       ELSE EnterLoop(videos)
    /\ UNCHANGED << pc_l, next_page, page_requests, shown, list_status,
                    file_path, DOWNLOAD_DIR, troubled >>
    /\ UNCHANGED << pc_d, video, requests, responses, result >>
    /\ RunFrame

\* A bug the skip test could have: no video is skipped.
Skipped_Never(id, ids) == FALSE

\* video_id in skip_ids
Skipped(id, ids) == \E i \in 1..Len(ids) : ids[i] = id

\* get_best_download_link has returned and its locals are gone.
DiscoverOver ==
    /\ pc_d' = "off"
    /\ video' = Null
    /\ requests' = << >>
    /\ responses' = << >>

\* for video in videos: after the last video "Download complete!"; a video
\* whose identifier is in skip_ids is passed over; for any other
\* get_best_download_link(video, client, debug, prefer_hd) is called.
NextVideo ==
    /\ pc_r = "loop"
    /\ IF cursor > Len(videos)
       THEN /\ RunReturn("download complete")
            /\ UNCHANGED << cursor, pc_d, video, requests, responses, result >>
       ELSE IF Skipped(VideoId(videos[cursor]), skip_ids)
       THEN /\ cursor' = cursor + 1
            /\ run_echo' = "skipping as requested"
            /\ UNCHANGED << pc_r, run_status, pc_d, video, requests,
                            responses, result >>
       ELSE /\ pc_r' = "discover"
            /\ run_echo' = "processing"
            /\ pc_d' = "direct"
            /\ video' = videos[cursor]
            /\ requests' = << >>
            /\ responses' = << >>
            /\ result' = Null
            /\ UNCHANGED << cursor, run_status >>
    /\ UNCHANGED << listVars, videos, file_path, DOWNLOAD_DIR, troubled >>
    /\ RunFrame

\* A bug the loop could have: a video without a link ends the batch.
AfterNoLink_Abort == "returned"

\* if not download_link: ... click.echo("Skipping this video."); continue
AfterNoLink == "loop"

\* After get_best_download_link: without a link the video is passed over;
\* else the target path is made, and a video whose file exists is passed
\* over.
CheckLink ==
    /\ pc_r = "discover"
    /\ pc_d = "done"
    /\ DiscoverOver
    /\ IF result = Null
       THEN /\ run_echo' = "no download link: skipping"
            /\ troubled' = troubled \cup {VideoId(video)}
            /\ cursor' = cursor + 1
            /\ pc_r' = AfterNoLink
            /\ result' = Null
            /\ UNCHANGED file_path
       ELSE /\ file_path' = FilePath(video, result)
            /\ troubled' = troubled
            /\ IF Exists(FilePath(video, result))
               THEN /\ run_echo' = "file exists: skipping"
                    /\ cursor' = cursor + 1
                    /\ pc_r' = "loop"
                    /\ result' = Null
               ELSE /\ run_echo' = "downloading"
                    /\ pc_r' = "media"
                    /\ UNCHANGED << cursor, result >>
    /\ UNCHANGED << listVars, videos, DOWNLOAD_DIR, run_status >>
    /\ RunFrame

\* response = requests.get(download_link["link"], stream=True): it raises
\* (always so for a link that is no string), or gives a status other than
\* 200 and the video is passed over, or open(file_path, "wb") makes the
\* file, empty.
MediaRequest ==
    /\ pc_r = "media"
    /\ result' = Null
    /\ \E response \in { Raise, Http(404, Null), Http(200, Null) } :
         CASE response = Raise \/ ~IsStr(Get(result, "link", Null)) ->
                /\ RunExit("error downloading videos")
                /\ troubled' = troubled \cup {VideoId(videos[cursor])}
                /\ UNCHANGED << cursor, DOWNLOAD_DIR >>
           [] response # Raise /\ IsStr(Get(result, "link", Null))
              /\ ~Ok(response) ->
                /\ run_echo' = "error downloading"
                /\ troubled' = troubled \cup {VideoId(videos[cursor])}
                /\ cursor' = cursor + 1
                /\ pc_r' = "loop"
                /\ UNCHANGED << run_status, DOWNLOAD_DIR >>
           [] IsStr(Get(result, "link", Null)) /\ Ok(response) ->
                /\ DOWNLOAD_DIR' =
                       { f \in DOWNLOAD_DIR : f.path # file_path }
                       \cup { [path |-> file_path, content |-> "partial"] }
                /\ pc_r' = "stream"
                /\ UNCHANGED << cursor, run_status, run_echo, troubled >>
    /\ UNCHANGED << listVars, videos, file_path >>
    /\ UNCHANGED << pc_d, video, requests, responses >>
    /\ RunFrame

\* for chunk in response.iter_content(...): f.write(chunk) -- the chunks
\* all arrive ("Downloaded"), or the transfer raises midway and the file
\* stays as far as it was written.
Stream ==
    /\ pc_r = "stream"
    /\ \E complete \in BOOLEAN :
         IF complete
         THEN /\ DOWNLOAD_DIR' =
                     { f \in DOWNLOAD_DIR : f.path # file_path }
                     \cup { [path |-> file_path, content |-> "complete"] }
              /\ run_echo' = "downloaded"
              /\ cursor' = cursor + 1
              /\ pc_r' = "loop"
              /\ UNCHANGED << run_status, troubled >>
         ELSE /\ RunExit("error downloading videos")
              /\ troubled' = troubled \cup {VideoId(videos[cursor])}
              /\ UNCHANGED << cursor, DOWNLOAD_DIR >>
    /\ UNCHANGED << listVars, videos, file_path >>
    /\ UNCHANGED discVars
    /\ RunFrame

\* The user runs the same command again, on the same account and download
\* directory.
RunAgain ==
    /\ pc_r \in {"returned", "exited"}
    /\ run_no < MaxRuns
    /\ run_no' = run_no + 1
    /\ dir_before' = DOWNLOAD_DIR
    /\ pc_r' = "client"
    /\ pc_l' = "off"
    /\ next_page' = 0
    /\ page_requests' = << >>
    /\ shown' = << >>
    /\ list_status' = -1
    /\ videos' = << >>
    /\ cursor' = 0
    /\ file_path' = << >>
    /\ run_echo' = None
    /\ run_status' = -1
    /\ UNCHANGED << authVars, discVars, selVars, limit, account, video_id,
                    count, skip_ids, DOWNLOAD_DIR, troubled >>

NextDownload ==
    \/ RunClient
    \/ FetchVideo
    \/ NextList
    \/ ListDone
    \/ NextVideo
    \/ NextDiscover
    \/ CheckLink
    \/ MediaRequest
    \/ Stream
    \/ RunAgain

SpecDownload == InitDownload /\ [][NextDownload]_vars

(***************************************************************************)
(* Claims about download_video                                             *)
(***************************************************************************)
\* C12: a video with no direct list and no thumbnail or nested candidates,
\* whose three endpoint strategies give nothing (an empty harvest, a status
\* other than 200 or a raise), gets none from discover; for a video that
\* got none the run logs the skip, writes no file, does not end, and goes
\* on with the next video of the batch, which it processes.
C12_NoLinkSkipsVideo ==
    /\ []((/\ pc_d = "done"
           /\ HarvestDirect = << >>
           /\ HarvestThumbnails \o HarvestScan = << >>
           /\ Len(responses) = 3
           /\ HarvestDownload = << >>
           /\ HarvestFieldsDownload = << >>
           /\ FilesOf(responses[3]) = << >>)
          => result = Null)
    /\ [][(pc_r = "discover" /\ pc_d = "done" /\ result = Null)
          => /\ run_echo' = "no download link: skipping"
             /\ DOWNLOAD_DIR' = DOWNLOAD_DIR
             /\ run_status' = -1
             /\ pc_r' = "loop"
             /\ cursor' = cursor + 1
             /\ videos' = videos]_vars
    /\ [][(/\ pc_r = "loop"
           /\ cursor <= Len(videos)
           /\ \A i \in 1..Len(skip_ids) :
                 skip_ids[i] # VideoId(videos[cursor]))
          => /\ pc_r' = "discover"
             /\ pc_d' = "direct"
             /\ video' = videos[cursor]]_vars

C12_Witness ==
    /\ pc_r = "loop"
    /\ run_echo = "no download link: skipping"
    /\ run_status = -1
    /\ DOWNLOAD_DIR = {}
    /\ videos = << VidB, VidA >>
    /\ cursor = 2
    /\ run_no = 1

\* C13: a step of a video's media request or transfer (a status other
\* than 200, a raise while requesting or streaming) never ends the run: the
\* run goes on with the loop and the process does not exit.
C13_MediaFailureKeepsRun ==
    [][(pc_r = "media" \/ pc_r = "stream")
       => /\ run_status' = -1
          /\ pc_r' \in {"loop", "stream"}]_vars

\* The paths of the files of a directory.
Paths(dir) == { f.path : f \in dir }

\* C14: a second run over the same videos with the same arguments creates
\* no file (but, possibly, for a video a request for which has failed, which
\* the network may answer otherwise the second time), and no run changes a
\* file that was there when it began.
C14_SecondRunCreatesNothing ==
    /\ run_no = 2
       => \A f \in DOWNLOAD_DIR :
             \/ f.path \in Paths(dir_before)
             \/ \E id \in troubled : Contains(f.path, id)
    /\ dir_before \subseteq DOWNLOAD_DIR

\* C17: list and download end with a non-zero status on every
\* unrecoverable error: no token, a failed listing, an account with no
\* videos, a requested video that cannot be fetched, a failure the run
\* does not recover from.
C17_ExitNonZero ==
    /\ (pc_l = "returned" /\ videos = << >>) => list_status = 1
    /\ pc_l = "exited" => list_status = 1
    /\ (pc_r \in {"returned", "exited"}
        /\ run_echo \in {"no token", "error listing videos", "no videos",
                          "error fetching video", "error downloading videos"})
       => run_status = 1

\* C20: discover is never called, no media request is made and no file is
\* written for a video whose identifier is in the skip set; such a video is
\* passed over in one step that leaves the request log and the download
\* directory alone and goes on with the loop; the skip set never changes.
C20_SkippedVideoUntouched ==
    /\ []((pc_r \in {"discover", "media", "stream"})
          => \A i \in 1..Len(skip_ids) :
                skip_ids[i] # VideoId(videos[cursor]))
    /\ [](\A f \in DOWNLOAD_DIR : \A i \in 1..Len(skip_ids) :
             ~Contains(f.path, skip_ids[i]))
    /\ [][skip_ids' = skip_ids]_vars
    /\ [][(/\ pc_r = "loop"
           /\ cursor <= Len(videos)
           /\ \E i \in 1..Len(skip_ids) :
                 skip_ids[i] = VideoId(videos[cursor]))
          => /\ pc_r' = "loop"
             /\ cursor' = cursor + 1
             /\ run_status' = -1
             /\ pc_d' = pc_d
             /\ requests' = requests
             /\ DOWNLOAD_DIR' = DOWNLOAD_DIR]_vars

C20_Witness ==
    /\ pc_r = "returned"
    /\ run_echo = "download complete"
    /\ skip_ids = << << "222" >> >>
    /\ videos = << VidB, VidA >>
    /\ \E f \in DOWNLOAD_DIR :
         Contains(f.path, << "111" >>) /\ f.content = "complete"
    /\ run_no = 1

(***************************************************************************)
(* More claims about the callback server                                   *)
(***************************************************************************)
\* C21: a request whose path is not exactly the redirect path gets the
\* default response, and serving it changes neither the recorded code nor
\* (the handler not going on to its signal) the captured flag.
C21_ExactPathOnly ==
    [][(served' # served /\ Head(backlog).path # CALLBACK_PATH)
       => /\ wfile' = DefaultPage
          /\ auth_code' = auth_code
          /\ callback_received' = callback_received
          /\ hpc' = "idle"]_vars

(***************************************************************************)
(* More claims about the cascade and the selector                          *)
(***************************************************************************)
\* The map nodes of a JSON tree at every depth, a node before the nodes
\* under it, those in the order of its values or items.
RECURSIVE MapNodes(_)
RECURSIVE MapNodesOfAll(_)
MapNodes(obj) ==
    IF IsDict(obj)
    THEN << obj >> \o MapNodesOfAll([i \in 1..Len(obj.items) |-> obj.items[i][2]])
    ELSE IF IsList(obj) THEN MapNodesOfAll(obj.elems)
    ELSE << >>

MapNodesOfAll(values) ==
    IF values = << >> THEN << >>
    ELSE MapNodes(Head(values)) \o MapNodesOfAll(Tail(values))

\* The host of a URL: what stands between the scheme and the path.
HostOf(url) ==
    LET starts == { i \in 2..Len(url) : url[i] \in {"/", "/video", "/img"} }
        stop == IF starts = {} THEN Len(url) + 1
                ELSE CHOOSE i \in starts : \A j \in starts : i <= j
    IN  SubSeq(url, 2, stop - 1)

\* The host is one of the media domains, or a name under one of them.
OnMediaHost(url) ==
    /\ HostOf(url) # << >>
    /\ HostOf(url)[Len(HostOf(url))] \in {"vimeocdn.com", "vimeo.com"}

\* A node the scan is to harvest: width, height and link are there, width
\* and height are numbers above 0, the link is on a media host.
ToHarvest(node) ==
    /\ HasKey(node, "width") /\ HasKey(node, "height") /\ HasKey(node, "link")
    /\ IsNum(Get(node, "width", Null)) /\ Get(node, "width", Null).n > 0
    /\ IsNum(Get(node, "height", Null)) /\ Get(node, "height", Null).n > 0
    /\ IsStr(Get(node, "link", Null)) /\ OnMediaHost(Get(node, "link", Null).s)

\* C22: the recursive scan harvests exactly the map nodes of the resource,
\* at every depth, that hold a numeric width > 0, a numeric height > 0 and
\* a link on a media host, in the order of the walk; every other node and
\* every scalar is passed over, the nodes under a node passed over are
\* visited all the same.
C22_ScanHarvestsExactly ==
    pc_d # "off"
    => LET nodes == SelectSeq(MapNodes(video), ToHarvest)
       IN  find_direct_links(video)
             = [i \in 1..Len(nodes) |->
                   Harvested(Get(nodes[i], "width", Null),
                             Get(nodes[i], "height", Null),
                             Get(nodes[i], "link", Null))]

\* C23: a call of the selector, under either policy, leaves the caller's
\* list as it was: the same entries in the same order.
C23_SelectLeavesList ==
    [][(pc_s = "call") => (variants' = variants)]_vars

\* A candidate the thumbnail strategy made by rewriting a thumbnail link:
\* its link ends in /video.mp4.
IsTransformed(x) ==
    /\ IsDict(x)
    /\ IsStr(Get(x, "link", Null))
    /\ Get(x, "link", Null).s # << >>
    /\ Get(x, "link", Null).s[Len(Get(x, "link", Null).s)] = "/video.mp4"

\* C24: in the list of thumbnail candidates every rewritten candidate
\* stands right after the original candidate of the same size; discover
\* never returns a rewritten candidate, and when it returns a thumbnail
\* candidate the link returned is the link of a picture size.
C24_NeverTransformed ==
    (pc_d = "done" /\ HarvestDirect = << >>)
    => /\ \A i \in 1..Len(HarvestThumbnails) :
            IsTransformed(HarvestThumbnails[i])
            => /\ i > 1
               /\ ~IsTransformed(HarvestThumbnails[i - 1])
               /\ Width(HarvestThumbnails[i - 1]) = Width(HarvestThumbnails[i])
               /\ Height(HarvestThumbnails[i - 1]) = Height(HarvestThumbnails[i])
       /\ ~IsTransformed(result)
       /\ (\E i \in 1..Len(HarvestThumbnails) : result = HarvestThumbnails[i])
          => \E j \in 1..Len(PictureSizes(video)) :
                Get(PictureSizes(video)[j], "link", Null) = Get(result, "link", Null)

C24_Witness ==
    /\ pc_d = "done"
    /\ HarvestDirect = << >>
    /\ Len(HarvestThumbnails) = 4
    /\ IsTransformed(HarvestThumbnails[2])
    /\ result = HarvestThumbnails[1]
    /\ Get(video, "embed", Null) # Null

(***************************************************************************)
(* More claims about download_video                                        *)
(***************************************************************************)
\* C25: when a run has ended, every file of the download directory holds a
\* transfer that ran to its end; a later run therefore never passes over a
\* video on finding a file that is only partly written.
C25_OnlyCompleteFiles ==
    /\ pc_r \in {"returned", "exited"}
       => \A f \in DOWNLOAD_DIR : f.content = "complete"
    /\ run_echo = "file exists: skipping"
       => \A f \in DOWNLOAD_DIR : f.path = file_path => f.content = "complete"

=============================================================================
